---- MODULE Spec2Model ----
(***************************************************************************)
(* The base backend contract ApiImpl of hyundai_kia_connect_api            *)
(* (src/hyundai_kia_connect_api/ApiImpl.py): the mandatory operations that *)
(* raise NotImplementedError, the optional operations that return None,    *)
(* refresh_vehicles, and the reverse-geocoding helper                      *)
(* update_geocoded_location.                                               *)
(*                                                                         *)
(* A state is the caller-owned Token and Vehicle objects together with the *)
(* observable outcome of the last call made on the interface: which        *)
(* operation, its arguments, whether it returned or raised, and the HTTP   *)
(* requests it issued.                                                     *)
(***************************************************************************)
EXTENDS Integers, Sequences, FiniteSets, TLC

\* ---------------------------------------------------------------- bounds
NumVehicles == 2    \* Vehicle objects the caller owns
MaxListLen == 2     \* longest list handed to refresh_vehicles

\* ------------------------------------------------- Python values (tagged)
None == [t |-> "None"]
Str(s) == [t |-> "str", v |-> s]
Num(n) == [t |-> "num", v |-> n]
Tuple(a, b) == [t |-> "tuple", v |-> <<a, b>>]
List(s) == [t |-> "list", v |-> s]
Dict(f) == [t |-> "dict", v |-> f]

\* Python truth value of an object, as `if x and y:` tests it.
Truthy(x) ==
    CASE x.t = "None" -> FALSE
      [] x.t = "num" -> x.v # 0
      [] x.t = "str" -> x.v # ""
      [] OTHER -> TRUE

\* str(x) for the values a coordinate can hold.
str(x) ==
    CASE x.t = "None" -> "None"
      [] x.t = "num" -> ToString(x.v)
      [] OTHER -> x.v

\* ------------------------------------------------------------ the objects
VehicleIds == 1..NumVehicles
Usernames == {"user@example.com"}
Coordinates == {None, Num(0), Num(37)}
\* The positions a Vehicle starts with: at most one coordinate missing or zero.
Locations == {p \in Coordinates \X Coordinates : Num(37) \in {p[1], p[2]}}
\* timeout arguments: the default (0) and a positive number of seconds.
Timeouts == {0, 30}

DisplayName == Str("123 Main St")
Address == Dict([k \in {"city"} |-> Str("Springfield")])
StaleGeocode == Tuple(Str("1 Old Rd"), Dict([k \in {"city"} |-> Str("Shelbyville")]))

\* What the geocoding service does with a request: the GET fails, or it
\* answers with a body that is not JSON, or with a body holding a JSON value.
NotAsked == [kind |-> "not_asked", valid |-> FALSE, doc |-> None]
NetworkError == [kind |-> "network_error", valid |-> FALSE, doc |-> None]
InvalidBody == [kind |-> "answer", valid |-> FALSE, doc |-> None]
JsonBody(doc) == [kind |-> "answer", valid |-> TRUE, doc |-> doc]
JsonDocs ==
    { Dict([k \in {"display_name", "address"} |->
              IF k = "display_name" THEN DisplayName ELSE Address]),
      Dict([k \in {"display_name"} |-> DisplayName]),
      List(<<>>) }
ServiceBehaviours == {NetworkError, InvalidBody} \cup {JsonBody(d) : d \in JsonDocs}

VARIABLES
    token,      \* the caller's Token: [username]
    vehicles,   \* the caller's Vehicle objects, by identity
    op,         \* the operation last called ("none" before any call)
    args,       \* its arguments
    result,     \* how it ended: returned a value, or raised an exception
    requests,   \* the URLs of the HTTP GETs it issued, in order
    service     \* how the geocoding service stood during the last call, when that
                \* call was update_geocoded_location (NotAsked otherwise)

vars == <<token, vehicles, op, args, result, requests, service>>

\* Recorded for the methods whose body reads none of its arguments.
NoArgs == [none |-> TRUE]
Return(v) == [kind |-> "return", value |-> v, exc |-> "-"]
Raise(e) == [kind |-> "raise", value |-> None, exc |-> e]

Init ==
    /\ token \in [username : Usernames]
    /\ vehicles \in [VehicleIds ->
            { [location_latitude |-> p[1], location_longitude |-> p[2], geocode |-> g] :
                p \in Locations, g \in {None, StaleGeocode} }]
    /\ op = "none"
    /\ args = NoArgs
    /\ result = Return(None)
    /\ requests = <<>>
    /\ service = NotAsked

\* What a method body that only returns or raises leaves behind: no request,
\* the caller's Token and Vehicles as they were.
NoEffect ==
    /\ requests' = <<>>
    /\ service' = NotAsked
    /\ UNCHANGED <<token, vehicles>>

\* ------------------------------------------------- mandatory operations
login(username, password) ==
    /\ op' = "login"
    /\ args' = NoArgs
    /\ result' = Raise("NotImplementedError")
    /\ NoEffect

get_vehicles ==
    /\ op' = "get_vehicles"
    /\ args' = NoArgs
    /\ result' = Raise("NotImplementedError")
    /\ NoEffect

update_vehicle_with_cached_state(vehicle) ==
    /\ op' = "update_vehicle_with_cached_state"
    /\ args' = NoArgs
    /\ result' = Raise("NotImplementedError")
    /\ NoEffect

force_refresh_vehicle_state(vehicle) ==
    /\ op' = "force_refresh_vehicle_state"
    /\ args' = NoArgs
    /\ result' = Raise("NotImplementedError")
    /\ NoEffect

lock_action(vehicle) ==
    /\ op' = "lock_action"
    /\ args' = NoArgs
    /\ result' = Raise("NotImplementedError")
    /\ NoEffect

start_climate(vehicle) ==
    /\ op' = "start_climate"
    /\ args' = NoArgs
    /\ result' = Raise("NotImplementedError")
    /\ NoEffect

stop_climate(vehicle) ==
    /\ op' = "stop_climate"
    /\ args' = NoArgs
    /\ result' = Raise("NotImplementedError")
    /\ NoEffect

start_charge(vehicle) ==
    /\ op' = "start_charge"
    /\ args' = NoArgs
    /\ result' = Raise("NotImplementedError")
    /\ NoEffect

\* stop_charge with the optional operations' default instead of the raise.
stop_charge_returns_none(vehicle) ==
    /\ op' = "stop_charge"
    /\ args' = NoArgs
    /\ result' = Return(None)
    /\ NoEffect

stop_charge(vehicle) ==
    /\ op' = "stop_charge"
    /\ args' = NoArgs
    /\ result' = Raise("NotImplementedError")
    /\ NoEffect

set_charge_limits(vehicle) ==
    /\ op' = "set_charge_limits"
    /\ args' = NoArgs
    /\ result' = Raise("NotImplementedError")
    /\ NoEffect

\* -------------------------------------------------- optional operations
\* refresh_vehicles doing what its `-> None` annotation says.
refresh_vehicles_returns_none(vehicle_list) ==
    /\ op' = "refresh_vehicles"
    /\ args' = [vehicles |-> vehicle_list]
    /\ result' = Return(None)
    /\ NoEffect

refresh_vehicles(vehicle_list) ==
    /\ op' = "refresh_vehicles"
    /\ args' = [vehicles |-> vehicle_list]
    /\ result' = Return(List(vehicle_list))
    /\ NoEffect

\* check_action_status treated as a mandatory operation.
check_action_status_required(vehicle, synchronous, timeout) ==
    /\ op' = "check_action_status"
    /\ args' = [synchronous |-> synchronous, timeout |-> timeout]
    /\ result' = Raise("NotImplementedError")
    /\ NoEffect

check_action_status(vehicle, synchronous, timeout) ==
    /\ op' = "check_action_status"
    /\ args' = [synchronous |-> synchronous, timeout |-> timeout]
    /\ result' = Return(None)
    /\ NoEffect

set_charging_current(vehicle) ==
    /\ op' = "set_charging_current"
    /\ args' = NoArgs
    /\ result' = Return(None)
    /\ NoEffect

set_windows_state(vehicle) ==
    /\ op' = "set_windows_state"
    /\ args' = NoArgs
    /\ result' = Return(None)
    /\ NoEffect

charge_port_action(vehicle) ==
    /\ op' = "charge_port_action"
    /\ args' = NoArgs
    /\ result' = Return(None)
    /\ NoEffect

update_month_trip_info(vehicle) ==
    /\ op' = "update_month_trip_info"
    /\ args' = NoArgs
    /\ result' = Return(None)
    /\ NoEffect

update_day_trip_info(vehicle) ==
    /\ op' = "update_day_trip_info"
    /\ args' = NoArgs
    /\ result' = Return(None)
    /\ NoEffect

schedule_charging_and_climate(vehicle) ==
    /\ op' = "schedule_charging_and_climate"
    /\ args' = NoArgs
    /\ result' = Return(None)
    /\ NoEffect

start_hazard_lights(vehicle) ==
    /\ op' = "start_hazard_lights"
    /\ args' = NoArgs
    /\ result' = Return(None)
    /\ NoEffect

start_hazard_lights_and_horn(vehicle) ==
    /\ op' = "start_hazard_lights_and_horn"
    /\ args' = NoArgs
    /\ result' = Return(None)
    /\ NoEffect

valet_mode_action(vehicle) ==
    /\ op' = "valet_mode_action"
    /\ args' = NoArgs
    /\ result' = Return(None)
    /\ NoEffect

\* ---------------------------------------------------- geocoding helper
\* utils.get_child_value: a tolerant lookup of one key; a missing field, or
\* data that is no object, yields None instead of an error.
get_child_value(data, key) ==
    IF data.t = "dict" /\ key \in DOMAIN data.v THEN data.v[key] ELSE None

\* The guard testing the latitude alone.
has_location_latitude_only(vehicle) ==
    Truthy(vehicle.location_latitude)

\* `if vehicle.location_latitude and vehicle.location_longitude:`
has_location(vehicle) ==
    Truthy(vehicle.location_latitude) /\ Truthy(vehicle.location_longitude)

\* The contact parameter appended whatever use_email says.
email_parameter_always(tok, use_email) ==
    <<"&email=", tok.username>>

\* A string built by + is the sequence of the pieces concatenated.
email_parameter(tok, use_email) ==
    IF use_email = TRUE THEN <<"&email=", tok.username>> ELSE <<>>

url(tok, vehicle, use_email) ==
    << "https://nominatim.openstreetmap.org/reverse?lat=",
       str(vehicle.location_latitude),
       "&lon=",
       str(vehicle.location_longitude),
       "&format=json&addressdetails=1&zoom=18" >>
    \o email_parameter(tok, use_email)

\* requests.get(url): a network failure raises out of the call, any answer
\* (whatever its status or body) is handed back as the response.
requests_get(svc) ==
    IF svc.kind = "network_error"
    THEN [raised |-> TRUE, exc |-> "ConnectionError", response |-> svc]
    ELSE [raised |-> FALSE, exc |-> "-", response |-> svc]

\* response.json(): the decoded document, or JSONDecodeError.
json(response) ==
    IF response.valid
    THEN [raised |-> FALSE, value |-> response.doc]
    ELSE [raised |-> TRUE, value |-> None]

\* The except branch without its assignment: a failed decode keeps the old geocode.
geocode_of_keeps_old(old, response) ==
    LET decoded == json(response) IN
    IF decoded.raised
    THEN old
    ELSE Tuple(get_child_value(decoded.value, "display_name"),
               get_child_value(decoded.value, "address"))

\* A document lacking a field treated like a failed decode.
geocode_of_strict(old, response) ==
    LET decoded == json(response) IN
    IF decoded.raised
       \/ get_child_value(decoded.value, "display_name") = None
       \/ get_child_value(decoded.value, "address") = None
    THEN None
    ELSE Tuple(get_child_value(decoded.value, "display_name"),
               get_child_value(decoded.value, "address"))

\* The try / except JSONDecodeError / else block: the new vehicle.geocode.
geocode_of(old, response) ==
    LET decoded == json(response) IN
    IF decoded.raised
    THEN None
    ELSE Tuple(get_child_value(decoded.value, "display_name"),
               get_child_value(decoded.value, "address"))

\* The helper asking the service a second time when the body does not decode.
update_geocoded_location_retry(vehicle, use_email, svc) ==
    /\ op' = "update_geocoded_location"
    /\ args' = [vehicle |-> vehicle, use_email |-> use_email]
    /\ service' = svc
    /\ UNCHANGED token
    /\ IF has_location(vehicles[vehicle])
       THEN LET got == requests_get(svc)
                u == url(token, vehicles[vehicle], use_email) IN
            /\ requests' = IF ~got.raised /\ json(got.response).raised
                           THEN <<u, u>> ELSE <<u>>
            /\ IF got.raised
               THEN /\ result' = Raise(got.exc)
                    /\ UNCHANGED vehicles
               ELSE /\ vehicles' = [vehicles EXCEPT ![vehicle].geocode =
                                       geocode_of(@, got.response)]
                    /\ result' = Return(None)
       ELSE /\ requests' = <<>>
            /\ result' = Return(None)
            /\ UNCHANGED vehicles

update_geocoded_location(vehicle, use_email, svc) ==
    /\ op' = "update_geocoded_location"
    /\ args' = [vehicle |-> vehicle, use_email |-> use_email]
    /\ service' = svc
    /\ UNCHANGED token
    /\ IF has_location(vehicles[vehicle])
       THEN LET got == requests_get(svc) IN
            /\ requests' = <<url(token, vehicles[vehicle], use_email)>>
            /\ IF got.raised
               THEN /\ result' = Raise(got.exc)
                    /\ UNCHANGED vehicles
               ELSE /\ vehicles' = [vehicles EXCEPT ![vehicle].geocode =
                                       geocode_of(@, got.response)]
                    /\ result' = Return(None)
       ELSE /\ requests' = <<>>
            /\ result' = Return(None)
            /\ UNCHANGED vehicles

\* ------------------------------------------------------ the state machine
\* Lists of distinct Vehicle objects, as get_vehicles hands them out.
VehicleLists ==
    { l \in UNION {[1..n -> VehicleIds] : n \in 0..MaxListLen} :
        \A i, j \in DOMAIN l : l[i] = l[j] => i = j }

Next ==
    \/ \E u \in Usernames : login(u, "secret")
    \/ get_vehicles
    \/ \E l \in VehicleLists : refresh_vehicles(l)
    \/ \E v \in VehicleIds : update_vehicle_with_cached_state(v)
    \/ \E v \in VehicleIds, s \in BOOLEAN, t \in Timeouts :
            check_action_status(v, s, t)
    \/ \E v \in VehicleIds : force_refresh_vehicle_state(v)
    \/ \E v \in VehicleIds, e \in BOOLEAN, svc \in ServiceBehaviours :
            update_geocoded_location(v, e, svc)
    \/ \E v \in VehicleIds : lock_action(v)
    \/ \E v \in VehicleIds : start_climate(v)
    \/ \E v \in VehicleIds : stop_climate(v)
    \/ \E v \in VehicleIds : start_charge(v)
    \/ \E v \in VehicleIds : stop_charge(v)
    \/ \E v \in VehicleIds : set_charge_limits(v)
    \/ \E v \in VehicleIds : set_charging_current(v)
    \/ \E v \in VehicleIds : set_windows_state(v)
    \/ \E v \in VehicleIds : charge_port_action(v)
    \/ \E v \in VehicleIds : update_month_trip_info(v)
    \/ \E v \in VehicleIds : update_day_trip_info(v)
    \/ \E v \in VehicleIds : schedule_charging_and_climate(v)
    \/ \E v \in VehicleIds : start_hazard_lights(v)
    \/ \E v \in VehicleIds : start_hazard_lights_and_horn(v)
    \/ \E v \in VehicleIds : valet_mode_action(v)

Spec == Init /\ [][Next]_vars

\* ------------------------------------------------------------ properties
MandatoryOps ==
    {"login", "get_vehicles", "update_vehicle_with_cached_state",
     "force_refresh_vehicle_state", "lock_action", "start_climate", "stop_climate",
     "start_charge", "stop_charge", "set_charge_limits"}

OptionalOps ==
    {"check_action_status", "set_charging_current", "set_windows_state",
     "charge_port_action", "update_month_trip_info", "update_day_trip_info",
     "schedule_charging_and_climate", "start_hazard_lights",
     "start_hazard_lights_and_horn", "valet_mode_action"}

\* The last call was update_geocoded_location / and it issued its request.
Geocoding == op = "update_geocoded_location"
Asked == Geocoding /\ requests # <<>>
\* The Vehicle the last geocoding call was given.
Target == vehicles[args.vehicle]

\* The service's document is a JSON object carrying key k.
Carries(doc, k) == doc.t = "dict" /\ k \in DOMAIN doc.v
WellFormed(svc) == svc.kind = "answer" /\ svc.valid
Complete(svc) ==
    WellFormed(svc) /\ Carries(svc.doc, "display_name") /\ Carries(svc.doc, "address")

\* URL u holds piece `name` followed by `value`.
HasParameter(u, name, value) ==
    \E i \in 1..(Len(u) - 1) : u[i] = name /\ u[i + 1] = value
HasPiece(u, piece) == \E i \in 1..Len(u) : u[i] = piece

\* C1: whenever the last call was a mandatory operation, it ended by raising
\* NotImplementedError and returned no value, whatever calls came before it.
C1_MandatoryRaises ==
    op \in MandatoryOps =>
        /\ result.kind = "raise"
        /\ result.exc = "NotImplementedError"

\* A mandatory operation called after an earlier geocoding call changed a Vehicle.
C1_Witness ==
    /\ op = "stop_charge"
    /\ result.kind = "raise"
    /\ \E v \in VehicleIds : vehicles[v].geocode = Tuple(DisplayName, Address)

\* C2: whenever the last call was an optional operation other than
\* refresh_vehicles, it returned None and raised nothing, for every synchronous
\* and timeout value of check_action_status.
C2_OptionalReturnsNone ==
    op \in OptionalOps => result = Return(None)

\* check_action_status asked to poll synchronously with a positive timeout.
C2_Witness ==
    /\ op = "check_action_status"
    /\ args.synchronous
    /\ args.timeout > 0
    /\ result = Return(None)

\* C3: every call of refresh_vehicles returns the list it was given (same
\* elements, same order, same length) and leaves the Vehicles as they were.
C3_RefreshIsIdentity ==
    [][op' = "refresh_vehicles" =>
        /\ result' = Return(List(args'.vehicles))
        /\ vehicles' = vehicles]_vars

\* refresh_vehicles given a list of two different Vehicles.
C3_Witness ==
    /\ op = "refresh_vehicles"
    /\ Len(args.vehicles) = 2
    /\ args.vehicles[1] # args.vehicles[2]
    /\ result.kind = "return"
    /\ result.value.v = args.vehicles

\* C4: a call of update_geocoded_location on a Vehicle whose latitude or
\* longitude is None changes no Vehicle (geocode keeps its value) and issues
\* no request.
C4_NoLocationNoOp ==
    [][(/\ op' = "update_geocoded_location"
        /\ \/ vehicles[args'.vehicle].location_latitude = None
           \/ vehicles[args'.vehicle].location_longitude = None)
       => /\ vehicles' = vehicles
          /\ requests' = <<>>
          /\ result' = Return(None)]_vars

\* The helper called on a Vehicle without latitude that holds an earlier geocode,
\* while the service would have answered.
C4_Witness ==
    /\ Geocoding
    /\ Target.location_latitude = None
    /\ Target.geocode = StaleGeocode
    /\ service.kind = "answer"
    /\ requests = <<>>

\* C5: after update_geocoded_location on a Vehicle whose latitude and longitude
\* are both not None, with the service answering an object carrying
\* display_name D and address A, vehicle.geocode is the pair (D, A).
C5_AnyCoordinatesGeocoded ==
    (/\ Geocoding
     /\ Target.location_latitude # None
     /\ Target.location_longitude # None
     /\ Complete(service))
    => Target.geocode =
         Tuple(service.doc.v["display_name"], service.doc.v["address"])

\* C6: after a call whose request was answered with a body that is not valid
\* JSON, vehicle.geocode is None and the call has returned normally.
C6_UndecodableClearsGeocode ==
    (Asked /\ service.kind = "answer" /\ ~service.valid)
    => /\ Target.geocode = None
       /\ result = Return(None)

\* The request answered with an undecodable body.
C6_Witness ==
    /\ Asked
    /\ service = InvalidBody
    /\ Target.geocode = None
    /\ result.kind = "return"

\* C7: after a call whose GET failed with a network error, vehicle.geocode is
\* None and no exception has reached the caller.
C7_NetworkErrorRecovered ==
    (Asked /\ service.kind = "network_error")
    => /\ Target.geocode = None
       /\ result.kind = "return"

\* C8 (as claimed): after a call answered with a decodable document that is not
\* an object carrying both display_name and address, vehicle.geocode is None.
C8_OtherShapeIsNone ==
    (Asked /\ WellFormed(service) /\ ~Complete(service))
    => Target.geocode = None

\* C8 (amended): after such a call vehicle.geocode is a pair, never None: each
\* component is the field's value when the document is an object carrying it,
\* and None otherwise; the call returns normally.
C8_OtherShapeIsPair ==
    (Asked /\ WellFormed(service) /\ ~Complete(service))
    => /\ Target.geocode =
            Tuple(IF Carries(service.doc, "display_name")
                    THEN service.doc.v["display_name"] ELSE None,
                  IF Carries(service.doc, "address")
                    THEN service.doc.v["address"] ELSE None)
       /\ result = Return(None)

\* The service answered an object without address: the pair (display name, None).
C8_Witness ==
    /\ Asked
    /\ WellFormed(service)
    /\ Carries(service.doc, "display_name")
    /\ ~Carries(service.doc, "address")
    /\ Target.geocode = Tuple(DisplayName, None)

\* C9: every request URL of update_geocoded_location carries
\* email=<token.username> exactly when use_email is true, and carries lat, lon,
\* format=json, addressdetails=1 and zoom=18 either way.
C9_EmailIffUseEmail ==
    Geocoding =>
        \A i \in DOMAIN requests :
            /\ HasParameter(requests[i], "&email=", token.username) <=> args.use_email
            /\ HasPiece(requests[i], "&email=") <=> args.use_email
            /\ HasParameter(requests[i],
                   "https://nominatim.openstreetmap.org/reverse?lat=",
                   str(Target.location_latitude))
            /\ HasParameter(requests[i], "&lon=", str(Target.location_longitude))
            /\ HasPiece(requests[i], "&format=json&addressdetails=1&zoom=18")

\* A request issued with use_email true.
C9_Witness ==
    /\ Asked
    /\ args.use_email
    /\ HasParameter(requests[1], "&email=", token.username)

\* C10: no call changes the Token or any Vehicle field other than geocode;
\* each call issues at most one request, and only update_geocoded_location
\* issues any.
C10_Frame ==
    [][/\ token' = token
       /\ \A v \in VehicleIds :
            /\ vehicles'[v].location_latitude = vehicles[v].location_latitude
            /\ vehicles'[v].location_longitude = vehicles[v].location_longitude
       /\ Len(requests') <= 1
       /\ requests' # <<>> => op' = "update_geocoded_location"]_vars

\* A geocoding call that issued its one request and rewrote geocode, followed
\* by nothing else.
C10_Witness ==
    /\ Asked
    /\ Len(requests) = 1
    /\ Target.geocode = Tuple(DisplayName, Address)
    /\ \E v \in VehicleIds : vehicles[v].geocode = StaleGeocode

====
